---- MODULE Spec2Model ----
(***************************************************************************)
(* Model of bitaxe_hashrate_benchmark.py: the voltage/frequency sweep, the *)
(* per-sample safety checks of benchmark_iteration, the aggregation of a   *)
(* sampling window, and the three places that restore the device (the      *)
(* SIGINT handler, the top-level except block, the top-level finally       *)
(* block).                                                                 *)
(*                                                                         *)
(* Numbers are integers.  An average computed by the script as a float is  *)
(* kept as the exact fraction [num, den]; comparisons cross-multiply.      *)
(* Python's None is the integer None for telemetry fields and settings,    *)
(* and the fraction NoneQ for averages.                                    *)
(***************************************************************************)
EXTENDS Integers, Sequences, FiniteSets, TLC

\* ---------------------------------------------------------------------------
\* Configuration (module-level assignments of the script)
\* ---------------------------------------------------------------------------
voltage_increment == 20
frequency_increment == 25
sample_interval == 15
max_temp == 66
max_allowed_voltage == 1400
max_allowed_frequency == 1200
max_vr_temp == 86
min_input_voltage == 4800
max_input_voltage == 5500
max_power == 40
min_allowed_voltage == 1000
min_allowed_frequency == 400
\* temp < 5 is the implausibly-low chip temperature check
min_plausible_temp == 5
\* fallbacks of fetch_default_settings
fallback_voltage == 1150
fallback_frequency == 500
\* number of readings dropped at each end of the sorted hash rates, and at the
\* low end of the sorted temperatures
hashrate_trim == 3
warmup_trim == 6
\* hashrate_within_tolerance: average >= expected * 0.94 (94 hundredths)
tolerance_percent == 94
top_count == 5

\* ---------------------------------------------------------------------------
\* Bounds of the model
\* ---------------------------------------------------------------------------
\* The script's benchmark_time is 600 (40 samples of 15 s).  The model runs the
\* shortest window the start-up validation accepts: 105 // 15 = 7 samples.
benchmark_time == 105
\* The sweep is explored until results holds this many measurements.
MaxResults == 3
\* Number of SIGINT deliveries explored in one run.
MaxSigints == 2

None == -1
NoneQ == [num |-> 0, den |-> 0]
NoReason == "None"

total_samples == benchmark_time \div sample_interval

\* ---------------------------------------------------------------------------
\* Fractions
\* ---------------------------------------------------------------------------
\* F applied to the value of e: a local variable, assigned once and then read
With(e, F(_)) == CHOOSE out \in {F(v) : v \in {e}} : TRUE

Q(n, d) == [num |-> n, den |-> d]
QLess(a, b) == a.num * b.den < b.num * a.den
QEq(a, b) == a.num * b.den = b.num * a.den

RECURSIVE GCD(_, _)
GCD(a, b) ==
    LET Step(p) == IF p[2] = 0 THEN p[1] ELSE GCD(p[2], p[1] % p[2])
    IN With(<<a, b>>, Step)

\* The same number in lowest terms
Reduced(q) ==
    LET Divided(p) == Q(p[1] \div p[3], p[2] \div p[3])
    IN With(<<q.num, q.den, GCD(q.num, q.den)>>, Divided)

RECURSIVE Sum(_)
Sum(s) == IF s = <<>> THEN 0 ELSE Head(s) + Sum(Tail(s))

\* sorted(list): ascending insertion, equal values keep their order
RECURSIVE InsertAsc(_, _)
InsertAsc(x, s) ==
    LET Placed(r) == IF r = <<>> THEN <<x>>
                     ELSE IF x < Head(r) THEN <<x>> \o r
                     ELSE <<Head(r)>> \o InsertAsc(x, Tail(r))
    IN With(s, Placed)

\* The first k elements of s in ascending order
RECURSIVE SortedPrefix(_, _)
SortedPrefix(s, k) == IF k = 0 THEN <<>> ELSE InsertAsc(s[k], SortedPrefix(s, k - 1))

SortedInts(s) == SortedPrefix(s, Len(s))

\* Slice starting one element early
SliceFromLo(s, lo, hi) ==
    IF Len(s) - hi <= lo THEN <<>> ELSE SubSeq(s, lo, Len(s) - hi)

\* Python slice s[:n]
FirstN(s, n) == IF Len(s) <= n THEN s ELSE SubSeq(s, 1, n)

\* Python slice s[lo:Len(s)-hi] (hi = 0 for s[lo:])
Slice(s, lo, hi) ==
    IF Len(s) - hi <= lo THEN <<>> ELSE SubSeq(s, lo + 1, Len(s) - hi)

\* ---------------------------------------------------------------------------
\* Telemetry
\* ---------------------------------------------------------------------------
\* One /api/system/info response; a field the device does not report is None.
Info(t, vr, v, h, p) ==
    [temp |-> t, vrTemp |-> vr, voltage |-> v, hashRate |-> h, power |-> p]

\* get_system_info returned None
NoInfo == Info(None, None, None, None, None)

\* retries = 3 of get_system_info; an attempt ends "ok", "timeout",
\* "connection" or "other" (another RequestException)
retries == 3

\* get_system_info going on to the next attempt after any request error
RECURSIVE get_system_info_retrying(_, _, _)
get_system_info_retrying(attempt, outcomes, response) ==
    IF attempt > retries THEN [info |-> NoInfo, ok |-> FALSE, attempts |-> retries]
    ELSE IF outcomes[attempt] = "ok"
        THEN [info |-> response, ok |-> TRUE, attempts |-> attempt]
    ELSE get_system_info_retrying(attempt + 1, outcomes, response)

\* get_system_info: the attempts are made in order; the first "ok" returns the
\* response, "timeout" and "connection" go on to the next attempt, any other
\* request error breaks out of the loop; None when no attempt succeeded.
RECURSIVE get_system_info_from(_, _, _)
get_system_info_from(attempt, outcomes, response) ==
    IF attempt > retries THEN [info |-> NoInfo, ok |-> FALSE, attempts |-> retries]
    ELSE IF outcomes[attempt] = "ok"
        THEN [info |-> response, ok |-> TRUE, attempts |-> attempt]
    ELSE IF outcomes[attempt] = "other"
        THEN [info |-> NoInfo, ok |-> FALSE, attempts |-> attempt]
    ELSE get_system_info_from(attempt + 1, outcomes, response)

get_system_info(outcomes, response) == get_system_info_from(1, outcomes, response)

\* SafetyCheck with the chip temperature limit tested with > instead of >=
SafetyCheckAboveOnly(info) ==
    IF info.temp = None THEN "TEMPERATURE_DATA_FAILURE"
    ELSE IF info.temp < min_plausible_temp THEN "TEMPERATURE_BELOW_5"
    ELSE IF info.temp > max_temp THEN "CHIP_TEMP_EXCEEDED"
    ELSE IF info.vrTemp /= None /\ info.vrTemp >= max_vr_temp THEN "VR_TEMP_EXCEEDED"
    ELSE IF info.voltage = None THEN "RAISE"
    ELSE IF info.voltage < min_input_voltage THEN "INPUT_VOLTAGE_BELOW_MIN"
    ELSE IF info.voltage > max_input_voltage THEN "INPUT_VOLTAGE_ABOVE_MAX"
    ELSE IF info.hashRate = None \/ info.power = None THEN "HASHRATE_POWER_DATA_FAILURE"
    ELSE IF info.power > max_power THEN "POWER_CONSUMPTION_EXCEEDED"
    ELSE "PASS"

\* SafetyCheck with the power limit tested before the presence of hashRate
SafetyCheckPowerFirst(info) ==
    IF info.temp = None THEN "TEMPERATURE_DATA_FAILURE"
    ELSE IF info.temp < min_plausible_temp THEN "TEMPERATURE_BELOW_5"
    ELSE IF info.temp >= max_temp THEN "CHIP_TEMP_EXCEEDED"
    ELSE IF info.vrTemp /= None /\ info.vrTemp >= max_vr_temp THEN "VR_TEMP_EXCEEDED"
    ELSE IF info.voltage = None THEN "RAISE"
    ELSE IF info.voltage < min_input_voltage THEN "INPUT_VOLTAGE_BELOW_MIN"
    ELSE IF info.voltage > max_input_voltage THEN "INPUT_VOLTAGE_ABOVE_MAX"
    ELSE IF info.power /= None /\ info.power > max_power THEN "POWER_CONSUMPTION_EXCEEDED"
    ELSE IF info.hashRate = None \/ info.power = None THEN "HASHRATE_POWER_DATA_FAILURE"
    ELSE "PASS"

\* The checks of one sample in benchmark_iteration (lines 201-238), in the
\* order of the code.  "PASS": the sample is accumulated.  "RAISE": the
\* comparison of a missing input voltage with a number raises TypeError.
SafetyCheck(info) ==
    IF info.temp = None THEN "TEMPERATURE_DATA_FAILURE"
    ELSE IF info.temp < min_plausible_temp THEN "TEMPERATURE_BELOW_5"
    ELSE IF info.temp >= max_temp THEN "CHIP_TEMP_EXCEEDED"
    ELSE IF info.vrTemp /= None /\ info.vrTemp >= max_vr_temp THEN "VR_TEMP_EXCEEDED"
    ELSE IF info.voltage = None THEN "RAISE"
    ELSE IF info.voltage < min_input_voltage THEN "INPUT_VOLTAGE_BELOW_MIN"
    ELSE IF info.voltage > max_input_voltage THEN "INPUT_VOLTAGE_ABOVE_MAX"
    ELSE IF info.hashRate = None \/ info.power = None THEN "HASHRATE_POWER_DATA_FAILURE"
    ELSE IF info.power > max_power THEN "POWER_CONSUMPTION_EXCEEDED"
    ELSE "PASS"

\* The six values benchmark_iteration returns.
Return(h, t, e, ok, vr, reason) ==
    [avg_hashrate |-> h, avg_temp |-> t, efficiency_jth |-> e,
     hashrate_ok |-> ok, avg_vr_temp |-> vr, error_reason |-> reason]

\* Failure returning zeros in place of None
FailureWithZeros(reason) == Return(Q(0, 1), Q(0, 1), Q(0, 1), FALSE, NoneQ, reason)

\* return None, None, None, False, None, reason
Failure(reason) == Return(NoneQ, NoneQ, NoneQ, FALSE, NoneQ, reason)

NoReturn == Failure(NoReason)

\* The statistics of a completed window need a division by len(trimmed list):
\* the trimmed VR list is empty when 1 to 6 VR readings were collected, and the
\* division raises ZeroDivisionError.
AggregateRaises(hr, temps, vrs) ==
    \/ Slice(SortedInts(hr), hashrate_trim, hashrate_trim) = <<>>
    \/ Slice(SortedInts(temps), warmup_trim, 0) = <<>>
    \/ vrs /= <<>> /\ Slice(SortedInts(vrs), warmup_trim, 0) = <<>>

\* The tolerance test with > for >=
WithinToleranceStrict(avg, frequency, cores, asics) ==
    avg.num * 1000 * 100 > frequency * cores * asics * tolerance_percent * avg.den

\* expected_hashrate * 1000 = frequency * small_core_count * asic_count
\* average_hashrate >= expected_hashrate * 0.94
WithinTolerance(avg, frequency, cores, asics) ==
    avg.num * 1000 * 100 >= frequency * cores * asics * tolerance_percent * avg.den

\* Lines 265-304 for lists on which no division raises.
Aggregate(hr, temps, powers, vrs, frequency, cores, asics) ==
    IF hr = <<>> \/ temps = <<>> \/ powers = <<>> THEN Failure("NO_DATA_COLLECTED")
    ELSE
      LET Mean(s) == Q(Sum(s), Len(s))
          trimmed_hashrates == Slice(SortedInts(hr), hashrate_trim, hashrate_trim)
          trimmed_temps == Slice(SortedInts(temps), warmup_trim, 0)
          trimmed_vr_temps == Slice(SortedInts(vrs), warmup_trim, 0)
          Rest(average_hashrate) ==
              LET average_temperature == With(trimmed_temps, Mean)
                  average_vr_temp ==
                      IF vrs = <<>> THEN NoneQ ELSE With(trimmed_vr_temps, Mean)
                  average_power == With(powers, Mean)
              IN IF average_hashrate.num > 0
                 THEN Return(average_hashrate, average_temperature,
                             Reduced(Q(average_power.num * 1000 * average_hashrate.den,
                                       average_power.den * average_hashrate.num)),
                             WithinTolerance(average_hashrate, frequency, cores, asics),
                             average_vr_temp, NoReason)
                 ELSE Failure("ZERO_HASHRATE")
      IN With(With(trimmed_hashrates, Mean), Rest)

\* ---------------------------------------------------------------------------
\* Results and the device
\* ---------------------------------------------------------------------------
\* One entry of results (the key averageVRTemp is absent when NoneQ).
Result(v, f, r) ==
    [coreVoltage |-> v, frequency |-> f, averageHashRate |-> r.avg_hashrate,
     averageTemperature |-> r.avg_temp, efficiencyJTH |-> r.efficiency_jth,
     averageVRTemp |-> r.avg_vr_temp]

Key(r, key) == IF key = "averageHashRate" THEN r.averageHashRate ELSE r.efficiencyJTH

\* Precedes placing x before an entry of equal key as well
PrecedesOrTies(x, e, key, reverse) ==
    IF reverse THEN ~QLess(Key(x, key), Key(e, key)) ELSE ~QLess(Key(e, key), Key(x, key))

\* x is placed strictly before e by sorted(..., key, reverse)
Precedes(x, e, key, reverse) ==
    IF reverse THEN QLess(Key(e, key), Key(x, key)) ELSE QLess(Key(x, key), Key(e, key))

RECURSIVE InsertByKey(_, _, _, _)
InsertByKey(x, s, key, reverse) ==
    IF s = <<>> THEN <<x>>
    ELSE IF Precedes(x, Head(s), key, reverse) THEN <<x>> \o s
    ELSE <<Head(s)>> \o InsertByKey(x, Tail(s), key, reverse)

\* sorted(results, key=lambda x: x[key], reverse=reverse): a stable sort, also
\* with reverse=True (entries of equal key keep their order in the list)
RECURSIVE sorted(_, _, _)
sorted(s, key, reverse) ==
    IF s = <<>> THEN <<>>
    ELSE InsertByKey(s[Len(s)], sorted(SubSeq(s, 1, Len(s) - 1), key, reverse), key, reverse)

\* BestPoint taking the last entry of the sorted list
BestPointLast(res, dv, df) ==
    IF res = <<>> THEN <<dv, df>>
    ELSE LET sr == sorted(res, "averageHashRate", TRUE)
         IN <<sr[Len(sr)].coreVoltage, sr[Len(sr)].frequency>>

\* The point reset_to_best_setting applies (lines 319-331), and the point the
\* other restoring branches apply when results is empty.
BestPoint(res, dv, df) ==
    IF res = <<>> THEN <<dv, df>>
    ELSE LET best_result == sorted(res, "averageHashRate", TRUE)[1]
         IN <<best_result.coreVoltage, best_result.frequency>>

\* The last set_system_settings call: the settings of its PATCH request, who
\* made it, whether the PATCH succeeded, whether the restart that follows a
\* successful PATCH succeeded, and whether restart_system then slept 90 s
\* (it does not when handling_interrupt is set).
Applied(v, f, by, patch_ok, restart_ok, interrupt) ==
    [coreVoltage |-> v, frequency |-> f, by |-> by, patched |-> patch_ok,
     restarted |-> patch_ok /\ restart_ok,
     stabilized |-> patch_ok /\ restart_ok /\ ~interrupt]

NotApplied == Applied(None, None, "nobody", FALSE, FALSE, FALSE)

set_system_settings(v, f, by, patch_ok, restart_ok, interrupt) ==
    Applied(v, f, by, patch_ok, restart_ok, interrupt)

\* restart_system called on its own (the last line of reset_to_best_setting,
\* and after set_system_settings in the except and finally blocks)
restart_system(dev, restart_ok, interrupt) ==
    [dev EXCEPT !.restarted = restart_ok, !.stabilized = restart_ok /\ ~interrupt]

\* The result file: nothing written, the results list (save_results), or the
\* final data with the rankings; n is the number of entries of results in it.
File(kind, n) == [kind |-> kind, n |-> n]

\* ---------------------------------------------------------------------------
\* Inputs
\* ---------------------------------------------------------------------------
\* Command-line points offered to the start-up validation
CandidateVoltages == {980, 1380, 1400, 1420}
CandidateFrequencies == {375, 400, 1200, 1225}

\* Lines 57-70: the checks that raise ValueError before anything else runs
Accepted(v, f) ==
    /\ ~(v > max_allowed_voltage)
    /\ ~(f > max_allowed_frequency)
    /\ ~(v < min_allowed_voltage)
    /\ ~(f < min_allowed_frequency)

\* /api/system/info at start-up: a device that reports everything, and one
\* whose response lacks the four keys
CapabilityResponses ==
    { [coreVoltage |-> 1166, frequency |-> 485, smallCoreCount |-> 1000, asicCount |-> 1],
      [coreVoltage |-> None, frequency |-> None, smallCoreCount |-> None, asicCount |-> None] }

\* dict.get(key, fallback)
Get(value, fallback) == IF value = None THEN fallback ELSE value

\* Samples that pass every check.  A run draws its passing samples from one
\* of these sets: a device whose hash rate is full or degraded, and a device
\* whose hash rate is full or zero.
NominalAlphabets ==
    { { Info(50, 60, 5000, 2000, 20), Info(60, None, 5000, 300, 30) },
      { Info(50, 60, 5000, 2000, 20), Info(50, 60, 5000, 0, 20) } }

\* Number of fields of a sample that are missing or out of their limits
Faults(s) ==
    (IF s.temp \in {None, 4, 66} THEN 1 ELSE 0)
    + (IF s.vrTemp = 86 THEN 1 ELSE 0)
    + (IF s.voltage \in {None, 4799, 5501} THEN 1 ELSE 0)
    + (IF s.hashRate = None THEN 1 ELSE 0)
    + (IF s.power \in {None, 41} THEN 1 ELSE 0)

\* Samples with one or two such fields
FaultySamples ==
    { s \in [temp : {None, 4, 50, 66}, vrTemp : {60, 86},
             voltage : {None, 4799, 5000, 5501}, hashRate : {None, 2000},
             power : {None, 20, 41}] : Faults(s) \in {1, 2} }

\* What the three attempts of one get_system_info call may meet
AttemptSequences ==
    { <<"ok", "ok", "ok">>, <<"timeout", "connection", "ok">>,
      <<"connection", "timeout", "timeout">>, <<"timeout", "other", "ok">> }

\* What one get_system_info call of the sampling loop may return when the
\* device answers with a sample of the set S
TelemetryReads(S) ==
    { [info |-> get_system_info(o, r).info, ok |-> get_system_info(o, r).ok] :
        o \in AttemptSequences, r \in S }

FaultyReads == TelemetryReads(FaultySamples)

\* ---------------------------------------------------------------------------
\* State
\* ---------------------------------------------------------------------------
VARIABLES
    nominal_samples,     \* input: the passing samples the device can report
    pc,                  \* where the main body of the script is
    hpc,                 \* "idle", or "restoring" while handle_sigint runs
    initial_voltage, initial_frequency,
    current_voltage, current_frequency,
    default_voltage, default_frequency, small_core_count, asic_count,
    results,
    handling_interrupt, system_reset_done,
    sample, hash_rates, temperatures, power_consumptions, vr_temps,
    ret,                 \* what benchmark_iteration returned to the sweep loop
    applied,             \* the last set_system_settings call
    file,                \* the result file
    top_5_results, top_5_efficient_results,
    last_fetch,          \* history: the attempts of the last get_system_info call
    restores,            \* history: restoring set_system_settings calls so far
    handler_restores,    \* history: those made by handle_sigint
    sigints,             \* history: SIGINT deliveries so far
    last_sample,         \* history: the last telemetry read of the iteration
    sweep_failed         \* history: benchmark_iteration returned a failure

vars == <<nominal_samples, pc, hpc, initial_voltage, initial_frequency, current_voltage,
          current_frequency, default_voltage, default_frequency, small_core_count,
          asic_count, results, handling_interrupt, system_reset_done, sample,
          hash_rates, temperatures, power_consumptions, vr_temps, ret, applied,
          file, top_5_results, top_5_efficient_results, last_fetch, restores,
          handler_restores, sigints, last_sample, sweep_failed>>

config == <<nominal_samples, initial_voltage, initial_frequency>>
defaults == <<default_voltage, default_frequency, small_core_count, asic_count>>
point == <<current_voltage, current_frequency>>
flags == <<handling_interrupt, system_reset_done>>
window == <<sample, hash_rates, temperatures, power_consumptions, vr_temps>>
rankings == <<top_5_results, top_5_efficient_results>>
history == <<restores, handler_restores, sigints, last_sample, sweep_failed>>

NoSample == [info |-> NoInfo, index |-> 0, fetched |-> FALSE]
NoFetch == [outcomes |-> <<>>, response |-> NoInfo, attempts |-> 0, ok |-> FALSE]

ClearWindow ==
    /\ sample' = 0
    /\ hash_rates' = <<>>
    /\ temperatures' = <<>>
    /\ power_consumptions' = <<>>
    /\ vr_temps' = <<>>

\* The script after its module-level code, for given sets of inputs
InitWith(alphabets, voltages, frequencies) ==
    /\ nominal_samples \in alphabets
    /\ pc = "fetch"
    /\ hpc = "idle"
    /\ \E v \in voltages, f \in frequencies :
          /\ Accepted(v, f)
          /\ initial_voltage = v
          /\ initial_frequency = f
    /\ current_voltage = None
    /\ current_frequency = None
    /\ default_voltage = None
    /\ default_frequency = None
    /\ small_core_count = None
    /\ asic_count = None
    /\ results = <<>>
    /\ handling_interrupt = FALSE
    /\ system_reset_done = FALSE
    /\ sample = 0
    /\ hash_rates = <<>>
    /\ temperatures = <<>>
    /\ power_consumptions = <<>>
    /\ vr_temps = <<>>
    /\ ret = NoReturn
    /\ applied = NotApplied
    /\ file = File("none", 0)
    /\ top_5_results = <<>>
    /\ top_5_efficient_results = <<>>
    /\ last_fetch = NoFetch
    /\ restores = 0
    /\ handler_restores = 0
    /\ sigints = 0
    /\ last_sample = NoSample
    /\ sweep_failed = FALSE

Init == InitWith(NominalAlphabets, CandidateVoltages, CandidateFrequencies)

\* ---------------------------------------------------------------------------
\* The main body (lines 336-388)
\* ---------------------------------------------------------------------------
\* fetch_default_settings, then lines 347-348
FetchDefaultSettings ==
    /\ pc = "fetch" /\ hpc = "idle"
    /\ \E request_ok \in BOOLEAN, system_info \in CapabilityResponses :
          IF request_ok
          THEN /\ default_voltage' = Get(system_info.coreVoltage, fallback_voltage)
               /\ default_frequency' = Get(system_info.frequency, fallback_frequency)
               /\ small_core_count' = Get(system_info.smallCoreCount, 0)
               /\ asic_count' = Get(system_info.asicCount, 0)
          ELSE /\ default_voltage' = fallback_voltage
               /\ default_frequency' = fallback_frequency
               /\ small_core_count' = 0
               /\ asic_count' = 0
    /\ current_voltage' = initial_voltage
    /\ current_frequency' = initial_frequency
    /\ pc' = "loop"
    /\ UNCHANGED <<hpc, config, rankings, last_fetch,
                   results, flags, window, ret, applied, file, history>>

\* The while test of line 350 and set_system_settings of line 351, for sweeps
\* of at most cap measurements
LoopApplyUpTo(cap) ==
    /\ pc = "loop" /\ hpc = "idle"
    /\ Len(results) < cap
    /\ IF current_voltage <= max_allowed_voltage /\ current_frequency <= max_allowed_frequency
       THEN /\ \E patch_ok \in BOOLEAN, restart_ok \in BOOLEAN :
                 /\ applied' = set_system_settings(current_voltage, current_frequency,
                                   "sweep", patch_ok, restart_ok, handling_interrupt)
            /\ pc' = "sample"
       ELSE /\ pc' = "finally"
            /\ UNCHANGED applied
    /\ ClearWindow
    /\ UNCHANGED <<hpc, config, rankings, last_fetch,
                   defaults, point, results, flags, ret, file, history>>

LoopApply == LoopApplyUpTo(MaxResults)

\* Lines 240-244, and the loop going to its next pass: the readings of a
\* sample that passed every check are appended.
Accumulate(info) ==
    /\ hash_rates' = Append(hash_rates, info.hashRate)
    /\ temperatures' = Append(temperatures, info.temp)
    /\ power_consumptions' = Append(power_consumptions, info.power)
    /\ vr_temps' = IF info.vrTemp /= None /\ info.vrTemp > 0
                   THEN Append(vr_temps, info.vrTemp)
                   ELSE vr_temps
    /\ sample' = sample + 1

\* Lines 196-263 of one pass of the sampling loop, on what get_system_info
\* returned: the checks, then the appends or the return
SampleStep(got) ==
    LET info == got.info
        verdict == IF got.ok THEN SafetyCheck(info) ELSE "SYSTEM_INFO_FAILURE"
    IN /\ last_sample' = [info |-> info, index |-> sample + 1, fetched |-> got.ok]
       /\ IF verdict = "PASS"
          THEN /\ Accumulate(info)
               /\ UNCHANGED <<pc, ret, sweep_failed>>
          ELSE IF verdict = "RAISE"
          THEN /\ pc' = "except"
               /\ ClearWindow
               /\ UNCHANGED <<ret, sweep_failed>>
          ELSE /\ pc' = "decide"
               /\ ret' = Failure(verdict)
               /\ sweep_failed' = TRUE
               /\ ClearWindow

\* One pass of the sampling loop of benchmark_iteration (lines 195-263): one
\* get_system_info call, the checks, the four appends.
Sample ==
    /\ pc = "sample" /\ hpc = "idle"
    /\ sample < total_samples
    /\ \E got \in FaultyReads \cup TelemetryReads(nominal_samples) : SampleStep(got)
    /\ UNCHANGED <<hpc, config, rankings, last_fetch, defaults, point, results, flags,
                   applied, file, restores, handler_restores, sigints>>

\* Lines 265-304 on the lists of the window: a division that raises unwinds
\* to the except block, else benchmark_iteration returns to the sweep loop.
Statistics ==
    IF /\ hash_rates /= <<>> /\ temperatures /= <<>> /\ power_consumptions /= <<>>
       /\ AggregateRaises(hash_rates, temperatures, vr_temps)
    THEN /\ pc' = "except"
         /\ UNCHANGED <<ret, sweep_failed>>
    ELSE /\ pc' = "decide"
         /\ ret' = Aggregate(hash_rates, temperatures, power_consumptions, vr_temps,
                             current_frequency, small_core_count, asic_count)
         /\ sweep_failed' = (ret'.error_reason /= NoReason)

\* The statistics after the loop (lines 265-304)
AggregateWindow ==
    /\ pc = "sample" /\ hpc = "idle"
    /\ sample = total_samples
    /\ Statistics
    /\ ClearWindow
    /\ UNCHANGED <<hpc, config, rankings, last_fetch,
                   defaults, point, results, flags, applied, file,
                   restores, handler_restores, sigints, last_sample>>

\* NextPoint staying at the same frequency after a within-tolerance measurement
NextPointStays(v, f, hashrate_ok) ==
    IF hashrate_ok
    THEN IF f + frequency_increment <= max_allowed_frequency
         THEN [done |-> FALSE, voltage |-> v, frequency |-> f]
         ELSE [done |-> TRUE, voltage |-> v, frequency |-> f]
    ELSE IF v + voltage_increment <= max_allowed_voltage
         THEN [done |-> FALSE, voltage |-> v + voltage_increment,
               frequency |-> f - frequency_increment]
         ELSE [done |-> TRUE, voltage |-> v, frequency |-> f]

\* NextPoint lowering the voltage after an out-of-tolerance measurement
NextPointVoltageDown(v, f, hashrate_ok) ==
    IF hashrate_ok
    THEN IF f + frequency_increment <= max_allowed_frequency
         THEN [done |-> FALSE, voltage |-> v, frequency |-> f + frequency_increment]
         ELSE [done |-> TRUE, voltage |-> v, frequency |-> f]
    ELSE IF v + voltage_increment <= max_allowed_voltage
         THEN [done |-> FALSE, voltage |-> v - voltage_increment,
               frequency |-> f - frequency_increment]
         ELSE [done |-> TRUE, voltage |-> v, frequency |-> f]

\* NextPoint raising the voltage without stepping the frequency back
NextPointNoRetreat(v, f, hashrate_ok) ==
    IF hashrate_ok
    THEN IF f + frequency_increment <= max_allowed_frequency
         THEN [done |-> FALSE, voltage |-> v, frequency |-> f + frequency_increment]
         ELSE [done |-> TRUE, voltage |-> v, frequency |-> f]
    ELSE IF v + voltage_increment <= max_allowed_voltage
         THEN [done |-> FALSE, voltage |-> v + voltage_increment, frequency |-> f]
         ELSE [done |-> TRUE, voltage |-> v, frequency |-> f]

\* Lines 369-382: where the sweep goes after a measurement at (v, f)
NextPoint(v, f, hashrate_ok) ==
    IF hashrate_ok
    THEN IF f + frequency_increment <= max_allowed_frequency
         THEN [done |-> FALSE, voltage |-> v, frequency |-> f + frequency_increment]
         ELSE [done |-> TRUE, voltage |-> v, frequency |-> f]
    ELSE IF v + voltage_increment <= max_allowed_voltage
         THEN [done |-> FALSE, voltage |-> v + voltage_increment,
               frequency |-> f - frequency_increment]
         ELSE [done |-> TRUE, voltage |-> v, frequency |-> f]

\* Decide going on with the loop after a failure instead of leaving it
DecideContinues ==
    /\ pc = "decide" /\ hpc = "idle"
    /\ IF ret.avg_hashrate /= NoneQ /\ ret.avg_temp /= NoneQ /\ ret.efficiency_jth /= NoneQ
       THEN LET next == NextPoint(current_voltage, current_frequency, ret.hashrate_ok)
            IN /\ results' = Append(results, Result(current_voltage, current_frequency, ret))
               /\ current_voltage' = next.voltage
               /\ current_frequency' = next.frequency
               /\ IF next.done
                  THEN pc' = "finally" /\ UNCHANGED file
                  ELSE pc' = "loop" /\ file' = File("results", Len(results) + 1)
       ELSE /\ pc' = "loop"
            /\ file' = File("results", Len(results))
            /\ UNCHANGED <<point, results>>
    /\ ret' = NoReturn
    /\ last_sample' = NoSample
    /\ UNCHANGED <<hpc, config, rankings, last_fetch,
                   defaults, flags, window, applied, restores,
                   handler_restores, sigints, sweep_failed>>

\* Decide storing the measurement over the last entry of results
DecideOverwrites ==
    /\ pc = "decide" /\ hpc = "idle"
    /\ IF ret.avg_hashrate /= NoneQ /\ ret.avg_temp /= NoneQ /\ ret.efficiency_jth /= NoneQ
       THEN LET next == NextPoint(current_voltage, current_frequency, ret.hashrate_ok)
                entry == Result(current_voltage, current_frequency, ret)
            IN /\ results' = IF results = <<>> THEN <<entry>>
                             ELSE [results EXCEPT ![Len(results)] = entry]
               /\ current_voltage' = next.voltage
               /\ current_frequency' = next.frequency
               /\ IF next.done
                  THEN pc' = "finally" /\ UNCHANGED file
                  ELSE pc' = "loop" /\ file' = File("results", Len(results'))
       ELSE /\ pc' = "finally"
            /\ UNCHANGED <<point, results, file>>
    /\ ret' = NoReturn
    /\ last_sample' = NoSample
    /\ UNCHANGED <<hpc, config, rankings, last_fetch, defaults, flags, window, applied,
                   restores, handler_restores, sigints, sweep_failed>>

\* Lines 354-388: the sweep loop's use of what benchmark_iteration returned
Decide ==
    /\ pc = "decide" /\ hpc = "idle"
    /\ IF ret.avg_hashrate /= NoneQ /\ ret.avg_temp /= NoneQ /\ ret.efficiency_jth /= NoneQ
       THEN LET next == NextPoint(current_voltage, current_frequency, ret.hashrate_ok)
            IN /\ results' = Append(results, Result(current_voltage, current_frequency, ret))
               /\ current_voltage' = next.voltage
               /\ current_frequency' = next.frequency
               /\ IF next.done
                  THEN pc' = "finally" /\ UNCHANGED file
                  ELSE pc' = "loop" /\ file' = File("results", Len(results) + 1)
       ELSE /\ pc' = "finally"
            /\ UNCHANGED <<point, results, file>>
    /\ ret' = NoReturn
    /\ last_sample' = NoSample
    /\ UNCHANGED <<hpc, config, rankings, last_fetch,
                   defaults, flags, window, applied, restores,
                   handler_restores, sigints, sweep_failed>>

\* ---------------------------------------------------------------------------
\* Restoring the device
\* ---------------------------------------------------------------------------
\* except Exception (lines 390-398): set_system_settings of the best or the
\* default point ...
ExceptApply ==
    /\ pc = "except" /\ hpc = "idle"
    /\ LET best == BestPoint(results, default_voltage, default_frequency)
       IN \E patch_ok \in BOOLEAN, restart_ok \in BOOLEAN :
            applied' = set_system_settings(best[1], best[2], "except", patch_ok,
                                           restart_ok, handling_interrupt)
    /\ restores' = restores + 1
    /\ last_sample' = NoSample
    /\ pc' = "except_restart"
    /\ UNCHANGED <<hpc, config, rankings, last_fetch,
                   defaults, point, results, flags, window, ret, file,
                   handler_restores, sigints, sweep_failed>>

\* ... then restart_system, and save_results when there are results
ExceptRestart ==
    /\ pc = "except_restart" /\ hpc = "idle"
    /\ \E restart_ok \in BOOLEAN :
         applied' = restart_system(applied, restart_ok, handling_interrupt)
    /\ file' = IF results /= <<>> THEN File("results", Len(results)) ELSE file
    /\ pc' = "finally"
    /\ UNCHANGED <<hpc, config, rankings, last_fetch,
                   defaults, point, results, flags, window, ret, history>>

\* finally (lines 399-408): skipped when system_reset_done, else
\* set_system_settings of the best or the default point ...
FinallyApply ==
    /\ pc = "finally" /\ hpc = "idle"
    /\ IF system_reset_done
       THEN /\ pc' = "summary"
            /\ UNCHANGED <<applied, restores>>
       ELSE /\ LET best == BestPoint(results, default_voltage, default_frequency)
               IN \E patch_ok \in BOOLEAN, restart_ok \in BOOLEAN :
                    applied' = set_system_settings(best[1], best[2], "finally", patch_ok,
                                                   restart_ok, handling_interrupt)
            /\ restores' = restores + 1
            /\ pc' = "finally_restart"
    /\ UNCHANGED <<hpc, config, rankings, last_fetch,
                   defaults, point, results, flags, window, ret, file,
                   handler_restores, sigints, last_sample, sweep_failed>>

\* ... then restart_system, save_results when there are results, and
\* system_reset_done = True (line 409)
FinallyRestart ==
    /\ pc = "finally_restart" /\ hpc = "idle"
    /\ \E restart_ok \in BOOLEAN :
         applied' = restart_system(applied, restart_ok, handling_interrupt)
    /\ file' = IF results /= <<>> THEN File("results", Len(results)) ELSE file
    /\ system_reset_done' = TRUE
    /\ pc' = "summary"
    /\ UNCHANGED <<hpc, config, rankings, last_fetch,
                   defaults, point, results, handling_interrupt, window,
                   ret, history>>

\* Lines 411-476: the rankings and the final file, then the script ends
Summary ==
    /\ pc = "summary" /\ hpc = "idle"
    /\ IF results /= <<>>
       THEN /\ top_5_results' = FirstN(sorted(results, "averageHashRate", TRUE), top_count)
            /\ top_5_efficient_results' =
                   FirstN(sorted(results, "efficiencyJTH", FALSE), top_count)
            /\ file' = File("final", Len(results))
       ELSE UNCHANGED <<rankings, file>>
    /\ pc' = "exited"
    /\ UNCHANGED <<hpc, config, last_fetch, defaults, point, results, flags, window, ret,
                   applied, history>>

\* Sigint without the test of the two flags
SigintUnguarded ==
    /\ pc /= "exited"
    /\ sigints < MaxSigints
    /\ sigints' = sigints + 1
    /\ handling_interrupt' = TRUE
    /\ hpc' = "restoring"
    /\ UNCHANGED <<pc, config, rankings, last_fetch,
                   defaults, point, results, system_reset_done, window, ret,
                   applied, file, restores, handler_restores, last_sample, sweep_failed>>

\* handle_sigint is entered (lines 109-117).  The signal can be delivered
\* wherever the script is, also while an earlier delivery is being handled.
\* The test of the two flags and handling_interrupt = True are one step: a
\* delivery between the two would run a nested handler up to its sys.exit(0),
\* and that SystemExit unwinds this invocation before it restores anything.
Sigint ==
    /\ pc /= "exited"
    /\ sigints < MaxSigints
    /\ sigints' = sigints + 1
    /\ IF handling_interrupt \/ system_reset_done
       THEN UNCHANGED <<hpc, handling_interrupt>>
       ELSE /\ handling_interrupt' = TRUE
            /\ hpc' = "restoring"
    /\ UNCHANGED <<pc, config, rankings, last_fetch,
                   defaults, point, results, system_reset_done, window, ret,
                   applied, file, restores, handler_restores, last_sample, sweep_failed>>

\* The rest of handle_sigint (lines 119-130): the restore, the two flags, and
\* sys.exit(0).  SystemExit is no Exception: raised in the try or the except
\* block it runs the finally block and ends the script, raised in the finally
\* block it ends the script at once.
HandlerFinish ==
    /\ hpc = "restoring"
    /\ LET best == BestPoint(results, default_voltage, default_frequency)
       IN \E patch_ok \in BOOLEAN, restart_ok \in BOOLEAN, again_ok \in BOOLEAN :
            LET dev == set_system_settings(best[1], best[2], "handler", patch_ok,
                                           restart_ok, handling_interrupt)
            IN applied' = IF results /= <<>>
                          THEN restart_system(dev, again_ok, handling_interrupt)
                          ELSE dev
    /\ file' = IF results /= <<>> THEN File("results", Len(results)) ELSE file
    /\ restores' = restores + 1
    /\ handler_restores' = handler_restores + 1
    /\ system_reset_done' = TRUE
    /\ handling_interrupt' = FALSE
    /\ hpc' = "idle"
    /\ pc' = IF pc \in {"finally_restart", "summary"} THEN "exited" ELSE "finally"
    /\ ClearWindow
    /\ ret' = NoReturn
    /\ last_sample' = NoSample
    /\ UNCHANGED <<config, rankings, last_fetch,
                   defaults, point, results, sigints, sweep_failed>>

Next ==
    \/ FetchDefaultSettings
    \/ LoopApply
    \/ Sample
    \/ AggregateWindow
    \/ Decide
    \/ ExceptApply
    \/ ExceptRestart
    \/ FinallyApply
    \/ FinallyRestart
    \/ Summary
    \/ Sigint
    \/ HandlerFinish

Spec == Init /\ [][Next]_vars

\* ---------------------------------------------------------------------------
\* The sweep loop run to its end with no interrupt, from initial points one
\* step below the maxima
\* ---------------------------------------------------------------------------
MaxSweep == 8

SweepVoltages == {1380, 1400}
SweepFrequencies == {1175, 1200}

\* Passing samples that differ in hash rate only: within and out of tolerance
SweepSamples == { Info(50, 60, 5000, 2000, 20), Info(50, 60, 5000, 300, 20) }

InitSweep == InitWith({SweepSamples}, SweepVoltages, SweepFrequencies)

SweepApply == LoopApplyUpTo(MaxSweep)

NextSweep ==
    \/ FetchDefaultSettings
    \/ SweepApply
    \/ Sample
    \/ AggregateWindow
    \/ Decide

\* Every call of the script returns: a step that can be taken is taken
SpecSweep == InitSweep /\ [][NextSweep]_vars /\ WF_vars(NextSweep)

\* ---------------------------------------------------------------------------
\* benchmark_iteration's statistics, on passing windows of every length the
\* start-up validation of lines 72-73 allows
\* ---------------------------------------------------------------------------
min_samples == 7
MaxWindow == 8

\* Passing samples: hash rates around 0.94 * 500, a device with no VR sensor
\* reading, two VR readings, a VR reading of 0
StatsSamples ==
    { Info(50, None, 5000, 0, 20), Info(55, 60, 5000, 469, 25),
      Info(60, 70, 5000, 471, 30), Info(50, 0, 5000, 471, 20) }

\* benchmark_iteration has just been called for the point of the command
\* line's defaults (lines 18-21), on a device reporting 1000 small cores
InitStats ==
    /\ nominal_samples = StatsSamples
    /\ pc = "sample"
    /\ hpc = "idle"
    /\ initial_voltage = 1150
    /\ initial_frequency = 500
    /\ current_voltage = 1150
    /\ current_frequency = 500
    /\ default_voltage = 1166
    /\ default_frequency = 485
    /\ small_core_count = 1000
    /\ asic_count = 1
    /\ results = <<>>
    /\ handling_interrupt = FALSE
    /\ system_reset_done = FALSE
    /\ sample = 0
    /\ hash_rates = <<>>
    /\ temperatures = <<>>
    /\ power_consumptions = <<>>
    /\ vr_temps = <<>>
    /\ ret = NoReturn
    /\ applied = set_system_settings(1150, 500, "sweep", TRUE, TRUE, FALSE)
    /\ file = File("none", 0)
    /\ top_5_results = <<>>
    /\ top_5_efficient_results = <<>>
    /\ last_fetch = NoFetch
    /\ restores = 0
    /\ handler_restores = 0
    /\ sigints = 0
    /\ last_sample = NoSample
    /\ sweep_failed = FALSE

\* One pass of the sampling loop (lines 195-263) on a sample that passes
StatsRead ==
    /\ pc = "sample" /\ hpc = "idle"
    /\ sample < MaxWindow
    /\ \E info \in nominal_samples :
          /\ SafetyCheck(info) = "PASS"
          /\ Accumulate(info)
          /\ last_sample' = [info |-> info, index |-> sample + 1, fetched |-> TRUE]
    /\ UNCHANGED <<pc, hpc, config, rankings, last_fetch,
                   defaults, point, results, flags, ret, applied, file,
                   restores, handler_restores, sigints, sweep_failed>>

\* The statistics after the loop (lines 265-304); the lists stay readable
StatsAggregate ==
    /\ pc = "sample" /\ hpc = "idle"
    /\ sample >= min_samples
    /\ Statistics
    /\ UNCHANGED <<hpc, config, rankings, last_fetch,
                   defaults, point, results, flags, window, applied, file,
                   restores, handler_restores, sigints, last_sample>>

NextStats ==
    \/ StatsRead
    \/ StatsAggregate
    \/ Decide

SpecStats == InitStats /\ [][NextStats]_vars

\* ---------------------------------------------------------------------------
\* One iteration with every course the three attempts of a get_system_info
\* call can take
\* ---------------------------------------------------------------------------
AttemptOutcomes == {"ok", "timeout", "connection", "other"}

\* Two samples that pass every check and one over max_temp
ReadSamples ==
    { Info(50, 60, 5000, 2000, 20), Info(55, 70, 5000, 1900, 25),
      Info(66, 60, 5000, 2000, 20) }

InitRead ==
    /\ nominal_samples = ReadSamples
    /\ pc = "sample"
    /\ hpc = "idle"
    /\ initial_voltage = 1150
    /\ initial_frequency = 500
    /\ current_voltage = 1150
    /\ current_frequency = 500
    /\ default_voltage = 1166
    /\ default_frequency = 485
    /\ small_core_count = 1000
    /\ asic_count = 1
    /\ results = <<>>
    /\ handling_interrupt = FALSE
    /\ system_reset_done = FALSE
    /\ sample = 0
    /\ hash_rates = <<>>
    /\ temperatures = <<>>
    /\ power_consumptions = <<>>
    /\ vr_temps = <<>>
    /\ ret = NoReturn
    /\ applied = set_system_settings(1150, 500, "sweep", TRUE, TRUE, FALSE)
    /\ file = File("none", 0)
    /\ top_5_results = <<>>
    /\ top_5_efficient_results = <<>>
    /\ last_fetch = NoFetch
    /\ restores = 0
    /\ handler_restores = 0
    /\ sigints = 0
    /\ last_sample = NoSample
    /\ sweep_failed = FALSE

\* One pass of the sampling loop (lines 195-263), the attempts of its
\* get_system_info call (lines 135-150) kept in last_fetch
SampleTraced ==
    /\ pc = "sample" /\ hpc = "idle"
    /\ sample < total_samples
    /\ \E outcomes \in [1..retries -> AttemptOutcomes], response \in nominal_samples :
         LET got == get_system_info(outcomes, response)
         IN /\ SampleStep(got)
            /\ last_fetch' = [outcomes |-> outcomes, response |-> response,
                              attempts |-> got.attempts, ok |-> got.ok]
    /\ UNCHANGED <<hpc, config, rankings, defaults, point, results, flags, applied, file,
                   restores, handler_restores, sigints>>

NextRead ==
    \/ SampleTraced
    \/ AggregateWindow
    \/ Decide

SpecRead == InitRead /\ [][NextRead]_vars

\* ---------------------------------------------------------------------------
\* The rankings of lines 411-415, on results lists of every length up to
\* MaxRanked
\* ---------------------------------------------------------------------------
MaxRanked == 6

\* Two hash rates and two efficiencies (0.1 and 0.09 J/TH), so that keys tie
RankedHashRates == {Q(550, 1), Q(600, 1)}
RankedEfficiencies == {Q(1, 10), Q(9, 100)}

\* The i-th entry of a results list: the point tells the entries apart
RankedEntry(i, hashrate, efficiency) ==
    Result(1150 + 50 * (i - 1), 500 + 25 * (i - 1),
           Return(hashrate, Q(50, 1), efficiency, TRUE, NoneQ, NoReason))

\* The script is at line 411: the finally block has restored the device
InitRank ==
    /\ \E n \in 0..MaxRanked :
         \E h \in [1..n -> RankedHashRates], e \in [1..n -> RankedEfficiencies] :
            results = [i \in 1..n |-> RankedEntry(i, h[i], e[i])]
    /\ nominal_samples = StatsSamples
    /\ pc = "summary"
    /\ hpc = "idle"
    /\ initial_voltage = 1150
    /\ initial_frequency = 500
    /\ current_voltage = 1150
    /\ current_frequency = 500
    /\ default_voltage = 1166
    /\ default_frequency = 485
    /\ small_core_count = 1000
    /\ asic_count = 1
    /\ handling_interrupt = FALSE
    /\ system_reset_done = TRUE
    /\ sample = 0
    /\ hash_rates = <<>>
    /\ temperatures = <<>>
    /\ power_consumptions = <<>>
    /\ vr_temps = <<>>
    /\ ret = NoReturn
    /\ LET best == BestPoint(results, default_voltage, default_frequency)
       IN applied = set_system_settings(best[1], best[2], "finally", TRUE, TRUE, FALSE)
    /\ file = IF results /= <<>> THEN File("results", Len(results)) ELSE File("none", 0)
    /\ top_5_results = <<>>
    /\ top_5_efficient_results = <<>>
    /\ last_fetch = NoFetch
    /\ restores = 1
    /\ handler_restores = 0
    /\ sigints = 0
    /\ last_sample = NoSample
    /\ sweep_failed = FALSE

NextRank == Summary

SpecRank == InitRank /\ [][NextRank]_vars

\* ---------------------------------------------------------------------------
\* Properties
\* ---------------------------------------------------------------------------
Restorers == {"handler", "except", "finally"}

\* A restoring set_system_settings call is the last call made
Restoring == applied.by \in Restorers

AppliedPoint == <<applied.coreVoltage, applied.frequency>>

\* The entry of results with the highest averageHashRate, the earliest-recorded
\* one among equals
IsBestEntry(i) ==
    /\ \A j \in 1..Len(results) :
          ~QLess(results[i].averageHashRate, results[j].averageHashRate)
    /\ \A j \in 1..(i - 1) :
          QLess(results[j].averageHashRate, results[i].averageHashRate)

\* The default points fetch_default_settings can capture
CapturedDefaults ==
    { <<Get(c.coreVoltage, fallback_voltage), Get(c.frequency, fallback_frequency)>> :
        c \in CapabilityResponses } \cup {<<fallback_voltage, fallback_frequency>>}

\* C1: every point the sweep loop applies to the device has its voltage in
\* [min_allowed_voltage, max_allowed_voltage] and its frequency in
\* [min_allowed_frequency, max_allowed_frequency].
C1_SweepPointsWithinBounds ==
    (applied.by = "sweep" /\ applied.patched) =>
        /\ min_allowed_voltage <= applied.coreVoltage
        /\ applied.coreVoltage <= max_allowed_voltage
        /\ min_allowed_frequency <= applied.frequency
        /\ applied.frequency <= max_allowed_frequency

\* C2: in one run the device is restored (a restoring set_system_settings call
\* is made) at most once.
C2_RestoreAtMostOnce == restores <= 1

\* C3: a SIGINT delivered while a restore is running does not start a second
\* restore: handle_sigint never restores while the except block or the finally
\* block is between its set_system_settings and its restart_system.
C3_InterruptDuringRestoreIgnored ==
    ~(hpc = "restoring" /\ pc \in {"except_restart", "finally_restart"})

\* C4: of the invocations of handle_sigint at most one gets past the test of
\* handling_interrupt and system_reset_done, so the handler restores the device
\* at most once and every other invocation returns without touching it; and
\* once a delivery has been handled the device has been restored (by that
\* invocation, or by the finally block before it).
C4_HandlerRestoresOnce ==
    /\ handler_restores + (IF hpc = "restoring" THEN 1 ELSE 0) <= 1
    /\ (sigints >= 1 /\ hpc = "idle") => (system_reset_done /\ restores >= 1)
    /\ (sigints >= 1 /\ hpc = "idle" /\ applied.by = "handler") => handler_restores = 1

\* Two deliveries, one restore by the handler, the script has ended
C4_Witness ==
    /\ sigints = 2
    /\ handler_restores = 1
    /\ applied.by = "handler"
    /\ pc = "exited"

\* C5: the script ends only after a restore ran, and a restore made with a
\* non-empty results applies the point of the entry with the highest
\* averageHashRate, the earliest-recorded one on ties.
C5_RestoreBeforeExitAppliesBest ==
    /\ pc = "exited" => restores >= 1
    /\ (Restoring /\ results /= <<>>) =>
          \E i \in 1..Len(results) :
             /\ IsBestEntry(i)
             /\ AppliedPoint = <<results[i].coreVoltage, results[i].frequency>>

\* The script ended after restoring to the first of two entries of equal rate
C5_Witness ==
    /\ pc = "exited"
    /\ sigints = 0
    /\ Len(results) = 2
    /\ QEq(results[1].averageHashRate, results[2].averageHashRate)
    /\ applied.by = "finally"
    /\ AppliedPoint = <<results[1].coreVoltage, results[1].frequency>>
    /\ AppliedPoint /= <<results[2].coreVoltage, results[2].frequency>>

\* C6: a restore made with an empty results applies a default point captured
\* at start-up (device-reported or the fallback 1150 / 500), never an unset one.
C6_EmptyResultsRestoreAppliesDefault ==
    (Restoring /\ results = <<>>) =>
        /\ AppliedPoint \in CapturedDefaults
        /\ applied.coreVoltage /= None
        /\ applied.frequency /= None

\* C7: a sample whose chip temperature is >= max_temp is never accumulated, and
\* the iteration that read it returns a failure with no averages.
C7_OverTempNeverAccepted ==
    /\ \A i \in 1..Len(temperatures) : temperatures[i] < max_temp
    /\ (last_sample.fetched /\ last_sample.info.temp >= max_temp) =>
          /\ sample = 0
          /\ hash_rates = <<>>
          /\ pc = "decide"
          /\ ret.error_reason = "CHIP_TEMP_EXCEEDED"
          /\ ret.avg_hashrate = NoneQ

\* A sample at the limit whose hashRate is missing was read and rejected
C7_Witness ==
    /\ pc = "decide"
    /\ last_sample.fetched
    /\ last_sample.info.temp = max_temp
    /\ last_sample.info.hashRate = None
    /\ last_sample.index = 3
    /\ ret.error_reason = "CHIP_TEMP_EXCEEDED"

\* The first failing check of a sample in the order the claim gives: a missing
\* temp, hashRate or power first, then the limits
ClaimedReason(info) ==
    IF info.temp = None THEN "TEMPERATURE_DATA_FAILURE"
    ELSE IF info.hashRate = None \/ info.power = None THEN "HASHRATE_POWER_DATA_FAILURE"
    ELSE IF info.temp < min_plausible_temp THEN "TEMPERATURE_BELOW_5"
    ELSE IF info.temp >= max_temp THEN "CHIP_TEMP_EXCEEDED"
    ELSE IF info.vrTemp /= None /\ info.vrTemp >= max_vr_temp THEN "VR_TEMP_EXCEEDED"
    ELSE IF info.voltage /= None /\ info.voltage < min_input_voltage
        THEN "INPUT_VOLTAGE_BELOW_MIN"
    ELSE IF info.voltage /= None /\ info.voltage > max_input_voltage
        THEN "INPUT_VOLTAGE_ABOVE_MAX"
    ELSE "POWER_CONSUMPTION_EXCEEDED"

\* The checks as (reason, the sample fails it) pairs in the amended order
AmendedChecks(info) ==
    << <<"TEMPERATURE_DATA_FAILURE", info.temp = None>>,
       <<"TEMPERATURE_BELOW_5", info.temp /= None /\ info.temp < min_plausible_temp>>,
       <<"CHIP_TEMP_EXCEEDED", info.temp /= None /\ info.temp >= max_temp>>,
       <<"VR_TEMP_EXCEEDED", info.vrTemp /= None /\ info.vrTemp >= max_vr_temp>>,
       <<"INPUT_VOLTAGE_BELOW_MIN",
         info.voltage /= None /\ info.voltage < min_input_voltage>>,
       <<"INPUT_VOLTAGE_ABOVE_MAX",
         info.voltage /= None /\ info.voltage > max_input_voltage>>,
       <<"HASHRATE_POWER_DATA_FAILURE", info.hashRate = None \/ info.power = None>>,
       <<"POWER_CONSUMPTION_EXCEEDED", info.power /= None /\ info.power > max_power>> >>

\* A sample was read and the iteration returned a failure reason for it
SampleRejected ==
    /\ pc = "decide"
    /\ last_sample.fetched
    /\ ret.error_reason \notin {NoReason, "ZERO_HASHRATE", "NO_DATA_COLLECTED"}

\* C8 as claimed: the reason reported for a rejected sample is its first failing
\* check in the order missing temp / hashRate / power, temp < 5,
\* temp >= max_temp, VR >= max_vr_temp, input voltage out of range,
\* power > max_power.
C8_ReasonInClaimedOrder ==
    SampleRejected => ret.error_reason = ClaimedReason(last_sample.info)

\* C8 amended: the reason reported for a rejected sample is its first failing
\* check in the order missing temp, temp < 5, temp >= max_temp,
\* VR >= max_vr_temp, input voltage below min, above max, missing hashRate or
\* power, power > max_power.
C8_ReasonInCodeOrder ==
    SampleRejected =>
        LET checks == AmendedChecks(last_sample.info)
        IN \E k \in 1..Len(checks) :
              /\ checks[k][2]
              /\ \A j \in 1..(k - 1) : ~checks[j][2]
              /\ ret.error_reason = checks[k][1]

\* A sample over the chip limit and without hashRate reported the chip limit
C8_Witness ==
    /\ SampleRejected
    /\ last_sample.info.hashRate = None
    /\ last_sample.info.temp = max_temp
    /\ ret.error_reason = "CHIP_TEMP_EXCEEDED"

\* The reasons of the per-sample checks
CheckReasons ==
    {"TEMPERATURE_DATA_FAILURE", "TEMPERATURE_BELOW_5", "CHIP_TEMP_EXCEEDED",
     "VR_TEMP_EXCEEDED", "INPUT_VOLTAGE_BELOW_MIN", "INPUT_VOLTAGE_ABOVE_MAX",
     "HASHRATE_POWER_DATA_FAILURE", "POWER_CONSUMPTION_EXCEEDED"}

\* The sample fails the check that reports this reason
FailsCheck(info, reason) ==
    \E k \in 1..Len(AmendedChecks(info)) :
        AmendedChecks(info)[k][1] = reason /\ AmendedChecks(info)[k][2]

\* The iteration has returned the failure of a check to the sweep loop
CheckFailed == pc = "decide" /\ ret.error_reason \in CheckReasons

\* C9: when sample k fails a check the iteration ends there: sample k is the
\* last one read, the k-1 accumulated readings are dropped and no average is
\* returned, the reason returned is that of a check sample k fails, and the
\* sweep loop takes the failure without appending to results, reading
\* telemetry or going on with the loop.
C9_FailureEndsIteration ==
    /\ [](CheckFailed =>
            /\ last_sample.fetched
            /\ last_sample.index \in 1..total_samples
            /\ FailsCheck(last_sample.info, ret.error_reason)
            /\ sample = 0 /\ hash_rates = <<>> /\ temperatures = <<>>
            /\ power_consumptions = <<>> /\ vr_temps = <<>>
            /\ ret.avg_hashrate = NoneQ /\ ret.avg_temp = NoneQ
            /\ ret.efficiency_jth = NoneQ /\ ret.avg_vr_temp = NoneQ)
    /\ [][CheckFailed =>
            /\ results' = results
            /\ hash_rates' = <<>>
            /\ pc' \in {"decide", "finally"}
            /\ last_sample'.index \in {last_sample.index, 0}]_vars

\* Sample 3 failed the VR limit after two samples had been accumulated
C9_Witness ==
    /\ CheckFailed
    /\ last_sample.index = 3
    /\ ret.error_reason = "VR_TEMP_EXCEEDED"
    /\ results /= <<>>

\* C10: once an iteration has returned a failure the sweep is over: the sweep
\* loop is taking the failure, or the script is in its finally block or has
\* ended; no window is open; and a set_system_settings call made since then is
\* a restore to the best entry of results or, with no results, to the captured
\* default.
C10_FailureEndsSweep ==
    sweep_failed =>
        /\ pc \in {"decide", "finally", "finally_restart", "summary", "exited"}
        /\ pc = "decide" => ret.error_reason /= NoReason
        /\ (pc = "decide" /\ hpc = "idle") => applied.by = "sweep"
        /\ sample = 0 /\ hash_rates = <<>>
        /\ applied.by \in {"sweep", "finally", "handler"}
        /\ (Restoring /\ results = <<>>) => AppliedPoint = <<default_voltage, default_frequency>>
        /\ (Restoring /\ results = <<>>) => AppliedPoint \in CapturedDefaults
        /\ (Restoring /\ results /= <<>>) =>
              \E i \in 1..Len(results) :
                 /\ IsBestEntry(i)
                 /\ AppliedPoint = <<results[i].coreVoltage, results[i].frequency>>

\* A failure after one measurement, and the finally block restored its point
C10_Witness ==
    /\ sweep_failed
    /\ Len(results) = 1
    /\ applied.by = "finally"
    /\ AppliedPoint = <<results[1].coreVoltage, results[1].frequency>>
    /\ pc = "exited"

\* C11: a sweep point whose apply request failed is not sampled: no telemetry
\* is read for it and no measurement tagged with it is appended to results.
C11_FailedApplyNotSampled ==
    (applied.by = "sweep" /\ ~applied.patched) =>
        /\ last_sample = NoSample
        /\ \A i \in 1..Len(results) :
              <<results[i].coreVoltage, results[i].frequency>> /= AppliedPoint

\* The place reading i of s takes when s is put in ascending order
RankOf(s, i) ==
    1 + Cardinality({j \in 1..Len(s) : s[j] < s[i] \/ (s[j] = s[i] /\ j < i)})

\* The readings of s left when the 3 smallest and the 3 largest are removed
Remaining(s) == {i \in 1..Len(s) : RankOf(s, i) > 3 /\ RankOf(s, i) <= Len(s) - 3}

RECURSIVE SumOver(_, _)
SumOver(s, I) ==
    IF I = {} THEN 0
    ELSE LET i == CHOOSE j \in I : TRUE IN s[i] + SumOver(s, I \ {i})

\* C12: for n >= 7 accumulated hash-rate readings the reported average hash
\* rate is the mean of the n - 6 readings left after removing the 3 smallest
\* and the 3 largest, as a multiset; for n = 7 it is the median reading.
C12_TrimmedMean ==
    (pc = "decide" /\ ret.error_reason = NoReason /\ Len(hash_rates) >= 7) =>
        LET n == Len(hash_rates)
            kept == Remaining(hash_rates)
        IN /\ Cardinality(kept) = n - 6
           /\ QEq(ret.avg_hashrate, Q(SumOver(hash_rates, kept), n - 6))
           /\ n = 7 => \E i \in 1..n : /\ RankOf(hash_rates, i) = 4
                                       /\ QEq(ret.avg_hashrate, Q(hash_rates[i], 1))

C12_Witness ==
    /\ pc = "decide"
    /\ ret.error_reason = NoReason
    /\ Len(hash_rates) = 8
    /\ hash_rates[1] = 471
    /\ hash_rates[2] = 0
    /\ hash_rates[3] = 469
    /\ QEq(ret.avg_hashrate, Q(470, 1))

\* The window is complete and the mean of its trimmed hash rates is 0
TrimmedMeanZero ==
    /\ pc /= "sample"
    /\ Len(hash_rates) >= min_samples
    /\ SumOver(hash_rates, Remaining(hash_rates)) = 0

\* C13: whenever the trimmed average hash rate of a completed window is 0 the
\* iteration returns the zero-hashrate failure: no efficiency value is
\* computed, no division by zero occurs, no entry is appended to results.
C13_ZeroHashrateFails ==
    TrimmedMeanZero =>
        /\ pc /= "except"
        /\ sweep_failed
        /\ results = <<>>
        /\ pc = "decide" => ret = Failure("ZERO_HASHRATE")

\* 1000 * expectedHashRate = frequency * smallCoreCount * asicCount
ExpectedTimes1000 == current_frequency * small_core_count * asic_count

\* C14: an iteration is judged within tolerance exactly when averageHashRate
\* >= expectedHashRate * 0.94, expectedHashRate being frequency *
\* smallCoreCount * asicCount / 1000; with expectedHashRate 500 an average of
\* 469 is not within tolerance and an average of 471 is.
C14_WithinToleranceExactly ==
    (pc = "decide" /\ ret.error_reason = NoReason) =>
        LET avg == ret.avg_hashrate
        IN /\ ret.hashrate_ok <=> ~QLess(avg, Q(ExpectedTimes1000 * 94, 1000 * 100))
           /\ (ExpectedTimes1000 = 500 * 1000 /\ QEq(avg, Q(469, 1))) => ~ret.hashrate_ok
           /\ (ExpectedTimes1000 = 500 * 1000 /\ QEq(avg, Q(471, 1))) => ret.hashrate_ok

C14_Witness ==
    /\ pc = "decide"
    /\ ret.error_reason = NoReason
    /\ ExpectedTimes1000 = 500 * 1000
    /\ QEq(ret.avg_hashrate, Q(469, 1))
    /\ ~ret.hashrate_ok

\* Entry j of res comes before entry i in the ordering by key: a better key
\* (higher when descending, lower when ascending), or the same key and an
\* earlier place in res
ComesBefore(res, j, i, key, descending) ==
    \/ IF descending THEN QLess(Key(res[i], key), Key(res[j], key))
                     ELSE QLess(Key(res[j], key), Key(res[i], key))
    \/ QEq(Key(res[i], key), Key(res[j], key)) /\ j < i

PlaceOf(res, i, key, descending) ==
    1 + Cardinality({j \in 1..Len(res) : ComesBefore(res, j, i, key, descending)})

\* ranking holds the first min(5, len) entries of res in that ordering
IsRanking(ranking, res, key, descending) ==
    /\ Len(ranking) = IF Len(res) < 5 THEN Len(res) ELSE 5
    /\ \A i \in 1..Len(res) :
          PlaceOf(res, i, key, descending) <= 5 =>
              ranking[PlaceOf(res, i, key, descending)] = res[i]

ExampleResults ==
    << RankedEntry(1, Q(550, 1), Q(1, 10)), RankedEntry(2, Q(600, 1), Q(9, 100)) >>

\* C15: the hashrate ranking is the first min(5, len) entries of results by
\* descending averageHashRate, the efficiency ranking the first min(5, len)
\* by ascending efficiencyJTH, entries of equal key in recording order;
\* computing them leaves results unchanged; for the results
\* [(1150,500,550,0.1), (1200,525,600,0.09)] both have the second entry first.
C15_Rankings ==
    /\ []((pc = "exited" /\ results /= <<>>) =>
            /\ IsRanking(top_5_results, results, "averageHashRate", TRUE)
            /\ IsRanking(top_5_efficient_results, results, "efficiencyJTH", FALSE)
            /\ results = ExampleResults =>
                  /\ top_5_results[1] = results[2]
                  /\ top_5_efficient_results[1] = results[2])
    /\ [][pc = "summary" => results' = results]_vars

C15_Witness ==
    /\ pc = "exited"
    /\ Len(results) = 6
    /\ Len(top_5_results) = 5
    /\ \A i \in 1..6 : results[i].averageHashRate = Q(600, 1)
    /\ top_5_results = SubSeq(results, 1, 5)
    /\ results[6].efficiencyJTH = Q(9, 100)
    /\ top_5_efficient_results[1] = results[6]

\* The last sample read reports no input voltage, and would pass every check
\* with an input voltage inside the allowed range
VoltageAbsentElsePassing ==
    /\ last_sample.fetched
    /\ last_sample.info.voltage = None
    /\ SafetyCheck([last_sample.info EXCEPT !.voltage = min_input_voltage]) = "PASS"

\* C16: input voltage is an optional field: a sample whose input voltage is
\* absent and whose other fields pass every check is accumulated as a passing
\* sample and never sends the run down the unexpected-error path.
C16_AbsentVoltageAccumulated ==
    VoltageAbsentElsePassing =>
        /\ pc \notin {"except", "except_restart"}
        /\ sample = last_sample.index
        /\ Len(hash_rates) = last_sample.index

\* The sweep loop takes up a measurement benchmark_iteration returned
TakesMeasurement ==
    /\ pc = "decide" /\ hpc = "idle"
    /\ ret.error_reason = NoReason
    /\ pc' /= "decide"

\* The measurement at the current point is the new last entry of results
MeasurementAppended ==
    /\ Len(results') = Len(results) + 1
    /\ SubSeq(results', 1, Len(results)) = results
    /\ LET entry == results'[Len(results')]
       IN /\ entry.coreVoltage = current_voltage
          /\ entry.frequency = current_frequency
          /\ entry.averageHashRate = ret.avg_hashrate
          /\ entry.efficiencyJTH = ret.efficiency_jth

\* The loop goes on with the point (v, f) / the loop is left
GoesOnWith(v, f) == pc' = "loop" /\ current_voltage' = v /\ current_frequency' = f
SweepDone == pc' = "finally"

\* C17: after a within-tolerance measurement at (v, f) the next probed point
\* is (v, f + frequency_increment) if that frequency is <=
\* max_allowed_frequency, else the sweep is Done; after an out-of-tolerance
\* measurement it is (v + voltage_increment, f - frequency_increment) if that
\* voltage is <= max_allowed_voltage, else the sweep is Done; in both cases
\* the measurement is appended to results first.  The loop applies the point
\* it goes on with.
C17_NextPoint ==
    /\ [][TakesMeasurement =>
            /\ MeasurementAppended
            /\ ret.hashrate_ok =>
                  IF current_frequency + 25 <= 1200
                  THEN GoesOnWith(current_voltage, current_frequency + 25)
                  ELSE SweepDone
            /\ ~ret.hashrate_ok =>
                  IF current_voltage + 20 <= 1400
                  THEN GoesOnWith(current_voltage + 20, current_frequency - 25)
                  ELSE SweepDone]_vars
    /\ [][(pc = "loop" /\ pc' = "sample") =>
            /\ applied'.by = "sweep"
            /\ applied'.coreVoltage = current_voltage
            /\ applied'.frequency = current_frequency]_vars

C17_Witness ==
    /\ pc = "sample"
    /\ applied.by = "sweep"
    /\ Len(results) = 1
    /\ results[1].frequency = 1200
    /\ AppliedPoint = <<results[1].coreVoltage + 20, results[1].frequency - 25>>

\* C18: the first telemetry sample of a probing point's iteration is read only
\* after the point was applied, the device was restarted and the stabilization
\* wait elapsed, also when the apply or the restart request fails.
C18_SampledAfterStabilization ==
    (applied.by = "sweep" /\ last_sample /= NoSample) =>
        /\ applied.coreVoltage = current_voltage
        /\ applied.frequency = current_frequency
        /\ applied.restarted
        /\ applied.stabilized

\* The readings of s left when the 6 lowest are dropped
AfterWarmup(s) == {i \in 1..Len(s) : RankOf(s, i) > 6}

\* C19: for a window in which every sample passed (and whose hash rate is not
\* zero), if at least one VR temperature reading was collected the iteration
\* succeeds with an average VR temperature equal to the mean of the collected
\* readings after dropping the 6 lowest, and if none was collected the
\* measurement has no VR field; collecting 1 to 6 VR readings never turns the
\* iteration into an error.
C19_VrReadingsNeverAnError ==
    (pc /= "sample" /\ Len(hash_rates) >= min_samples
                    /\ SumOver(hash_rates, Remaining(hash_rates)) > 0) =>
        /\ pc /= "except"
        /\ pc = "decide" =>
              /\ ret.error_reason = NoReason
              /\ vr_temps = <<>> => ret.avg_vr_temp = NoneQ
              /\ Len(vr_temps) > 6 =>
                    QEq(ret.avg_vr_temp,
                        Q(SumOver(vr_temps, AfterWarmup(vr_temps)), Len(vr_temps) - 6))

\* The attempts of outcomes that end the retrying: a response or an error
\* other than a timeout or a connection error
Decisive(outcomes) == {k \in 1..3 : outcomes[k] \notin {"timeout", "connection"}}

FirstDecisive(outcomes) ==
    IF Decisive(outcomes) = {} THEN 0
    ELSE CHOOSE k \in Decisive(outcomes) : \A j \in Decisive(outcomes) : k <= j

\* C20: one telemetry read makes at most 3 attempts: it returns the first
\* successful response, retries after a timeout or connection error, stops at
\* once on any other request error, and when no attempt succeeds the iteration
\* ends with the system-info failure reason and the sweep with Done, never
\* in the except block and never with the sample accumulated as passing.
C20_TelemetryRead ==
    last_fetch /= NoFetch =>
        LET k == FirstDecisive(last_fetch.outcomes)
        IN /\ last_fetch.attempts \in 1..3
           /\ last_fetch.attempts = IF k = 0 THEN 3 ELSE k
           /\ last_fetch.ok <=> (k /= 0 /\ last_fetch.outcomes[k] = "ok")
           /\ (last_fetch.ok /\ last_sample /= NoSample) =>
                  /\ last_sample.fetched
                  /\ last_sample.info = last_fetch.response
           /\ (last_fetch.ok /\ last_fetch.response.temp >= 66) => sweep_failed
           /\ ~last_fetch.ok =>
                  /\ pc \in {"decide", "finally"}
                  /\ pc = "decide" => ret = Failure("SYSTEM_INFO_FAILURE")
                  /\ sweep_failed
                  /\ hash_rates = <<>> /\ sample = 0
                  /\ results = <<>>

C20_Witness ==
    /\ last_fetch.outcomes = <<"timeout", "other", "ok">>
    /\ last_fetch.attempts = 2
    /\ ~last_fetch.ok
    /\ pc = "finally"
    /\ sweep_failed

\* results has grown by exactly one entry at its end
GrownByOne ==
    /\ Len(results') = Len(results) + 1
    /\ \A i \in 1..Len(results) : results'[i] = results[i]

\* benchmark_iteration returns a measurement (no failure reason)
ReturnsMeasurement == ret' /= ret /\ ret'.error_reason = NoReason /\ ret' /= NoReturn

\* C21: results is append-only: at every step it is unchanged or has grown by
\* exactly one entry at the end, entries are never modified, removed or
\* reordered, and every entry comes from an iteration in which all
\* total_samples samples passed every safety check and the average hash rate
\* was > 0.
C21_ResultsAppendOnly ==
    /\ [][results' = results \/ GrownByOne]_vars
    /\ [][results' /= results =>
            /\ pc = "decide"
            /\ ret.error_reason = NoReason
            /\ results'[Len(results')] = Result(current_voltage, current_frequency, ret)]_vars
    /\ [][ReturnsMeasurement =>
            /\ sample = total_samples
            /\ Len(hash_rates) = total_samples
            /\ \A i \in 1..total_samples :
                  \E s \in nominal_samples : /\ SafetyCheck(s) = "PASS"
                                             /\ s.hashRate = hash_rates[i]
            /\ SumOver(hash_rates, Remaining(hash_rates)) > 0
            /\ QLess(Q(0, 1), ret'.avg_hashrate)]_vars
    /\ [](\A i \in 1..Len(results) : QLess(Q(0, 1), results[i].averageHashRate))

C21_Witness ==
    /\ Len(results) = 2
    /\ pc = "loop"
    /\ results[1].averageHashRate = Q(300, 1)
    /\ results[2].averageHashRate = Q(2000, 1)
    /\ results[2].coreVoltage = results[1].coreVoltage + 20

\* The sweep loop has been left
SweepOver == pc \in {"finally", "except"}

\* The loop goes on to a point that is later in the order of the claim: a
\* higher voltage, or the same voltage and a higher frequency
Advances ==
    \/ current_voltage' > current_voltage
    \/ current_voltage' = current_voltage /\ current_frequency' > current_frequency

\* C22: with no interrupt and every device call returning the sweep loop
\* terminates for every accepted initial point and every sequence of
\* iteration outcomes: voltage never decreases and is bounded by
\* max_allowed_voltage, and between two voltage increases the frequency
\* strictly increases and is bounded by max_allowed_frequency.
C22_SweepTerminates ==
    /\ <>SweepOver
    /\ [][(pc = "decide" /\ pc' = "loop") => Advances]_vars
    /\ [][current_voltage /= None => current_voltage' >= current_voltage]_vars
    /\ [](pc \in {"sample", "decide"} =>
            /\ current_voltage <= 1400
            /\ current_frequency <= 1200)

C22_Witness ==
    /\ pc = "finally"
    /\ ~sweep_failed
    /\ Len(results) = 4
    /\ initial_voltage = 1380 /\ initial_frequency = 1175
    /\ current_voltage = 1400 /\ current_frequency = 1200

\* C23: every point the sweep loop applies has voltage <= max_allowed_voltage
\* and frequency <= max_allowed_frequency, and across successive probing
\* points the voltage is non-decreasing and never below the initial voltage.
C23_SweepPointsBelowMaxima ==
    /\ [](applied.by = "sweep" =>
            /\ applied.coreVoltage <= 1400
            /\ applied.frequency <= 1200
            /\ applied.coreVoltage >= initial_voltage)
    /\ [][(applied.by = "sweep" /\ applied'.by = "sweep") =>
            applied'.coreVoltage >= applied.coreVoltage]_vars

C23_Witness ==
    /\ pc = "sample"
    /\ applied.by = "sweep"
    /\ Len(results) = 2
    /\ initial_voltage = 1380
    /\ results[1].coreVoltage = 1380
    /\ results[2].coreVoltage = 1400
    /\ applied.coreVoltage = 1400
    /\ applied.frequency = 400

====
